---------------------------- MODULE Spec2Model ----------------------------
(***************************************************************************)
(* A model of the bluedroid GATT server: the attribute tree, the           *)
(* registration sequencer, the event router and the value-change fan-out.  *)
(*                                                                         *)
(* The controller (ESP-IDF Bluedroid) is the environment: it keeps the     *)
(* commands it was given in one FIFO queue and confirms each of them once, *)
(* in issuance order, with an OK or a failure status.                      *)
(***************************************************************************)
EXTENDS Integers, Sequences, FiniteSets, TLC

\* ------------------------------------------------------------------ bounds

\* How many confirmations the controller may report with a failure status.
MaxFail == 1

\* ------------------------------------------------------------- constants

\* Option::None of a handle or interface (handles are >= 0).
None == -1

\* esp_gatt_status_t_ESP_GATT_OK and a failure status.
ESP_GATT_OK == 0
ESP_GATT_ERROR == 133

\* BleUuid::Uuid16(0x2902), the CCCD descriptor.
UuidCCCD == 10498

\* BleUuid::from_uuid16(0x2901), the user description descriptor, whose value
\* is set at construction and served by the controller.
UuidUserDescription == 10497

\* The service handle and the interface an event of a failed command carries.
InvalidHandle == 0
ESP_GATT_IF_NONE == 255

\* The first handle and the first interface the controller hands out.
FirstHandle == 40
FirstIf == 3

\* The size of the response buffer, [0u8; 600].
RspBufLen == 600

\* --------------------------------------------------------- attribute tree

Descr(uuid, control) == [uuid |-> uuid, control |-> control]

Chr(uuid, notify, indicate, control, wcb, descriptors) ==
    [uuid |-> uuid, notify |-> notify, indicate |-> indicate, control |-> control,
     write_callback |-> wcb, descriptors |-> descriptors]

Svc(uuid, characteristics) == [uuid |-> uuid, characteristics |-> characteristics]

Prof(identifier, services) == [identifier |-> identifier, services |-> services]

\* Tree 1: two profiles; the first characteristic declares two descriptors
\* with the CCCD UUID, the second one CCCD; sibling UUIDs otherwise distinct.
Tree1 ==
    << Prof(1, << Svc(6144, <<
           Chr(10752, TRUE, TRUE, "ResponseByApp", TRUE,
               << Descr(UuidCCCD, "ResponseByApp"), Descr(UuidCCCD, "ResponseByApp") >>),
           Chr(10753, TRUE, FALSE, "AutomaticResponse", FALSE,
               << Descr(UuidCCCD, "ResponseByApp") >>) >>) >>),
       Prof(2, << Svc(6145, << >>) >>) >>

\* Tree 2: one profile, one service, three characteristics of which the
\* first two share a UUID; no descriptors.
Tree2 ==
    << Prof(1, << Svc(6144, <<
           Chr(10752, FALSE, FALSE, "AutomaticResponse", FALSE, << >>),
           Chr(10752, FALSE, FALSE, "AutomaticResponse", FALSE, << >>),
           Chr(10754, FALSE, FALSE, "AutomaticResponse", FALSE, << >>) >>) >>) >>

\* Tree 3: one profile, one service, three characteristics. The first two
\* have one CCCD each: the first supports notify and indicate and is answered
\* by the application, the second supports notify only and is answered by the
\* controller. The third is answered by the application, has no write
\* callback, no descriptor and neither notify nor indicate.
Tree3 ==
    << Prof(1, << Svc(6144, <<
           Chr(10752, TRUE, TRUE, "ResponseByApp", TRUE,
               << Descr(UuidCCCD, "ResponseByApp") >>),
           Chr(10753, TRUE, FALSE, "AutomaticResponse", FALSE,
               << Descr(UuidCCCD, "ResponseByApp") >>),
           Chr(10754, FALSE, FALSE, "ResponseByApp", FALSE, << >>) >>) >>) >>

\* Tree 4: one profile with two services; the first service has two
\* characteristics, of which the first has a CCCD and the second a user
\* description, the second service one characteristic; all UUIDs distinct.
Tree4 ==
    << Prof(1, << Svc(6144, <<
                      Chr(10752, TRUE, FALSE, "ResponseByApp", TRUE,
                          << Descr(UuidCCCD, "ResponseByApp") >>),
                      Chr(10753, FALSE, FALSE, "AutomaticResponse", FALSE,
                          << Descr(UuidUserDescription, "AutomaticResponse") >>) >>),
                  Svc(6145, <<
                      Chr(10754, FALSE, FALSE, "AutomaticResponse", FALSE, << >>) >>) >>) >>

Trees == << Tree1, Tree2, Tree3, Tree4 >>

VARIABLES
    cfg,                      \* which tree the application built
    handlers,                 \* which of the two handler sets of the source is wired
    interface,                \* Profile.interface, per profile
    svcHandle,                \* Service.handle, per service
    chrHandle,                \* Characteristic.attribute_handle
    dscHandle,                \* Descriptor.attribute_handle
    advertisement_configured, \* GattServer.advertisement_configured
    active_connections,       \* GattServer.active_connections
    workers,                  \* the threads spawned by register_characteristics
    pending,                  \* controller: commands not yet confirmed (FIFO)
    ctl,                      \* controller: next handle, next interface, failures, service owners
    hpc,                      \* the event handler's position inside the add-characteristic handler
    requested,                \* profiles whose app-register command was issued
    panicked,                 \* a handler panicked: the process is gone
    cmds,                     \* log: how often each device-level command was issued
    addCharLog,               \* log: per service, the characteristics whose add command was issued
    last,                     \* log: the event handled last and what its handler did
    nvs                       \* the non-volatile storage of the CCCD values, key -> bytes

vars == << cfg, handlers, interface, svcHandle, chrHandle, dscHandle,
           advertisement_configured, active_connections, workers, pending, ctl, hpc,
           requested, panicked, cmds, addCharLog, last, nvs >>

profiles == Trees[cfg]

ProfIds == 1..Len(profiles)
SvcIdsOf(p) == { <<p, s>> : s \in 1..Len(profiles[p].services) }
SvcIds == UNION { SvcIdsOf(p) : p \in ProfIds }
SvcOf(n) == profiles[n[1]].services[n[2]]
ChrIdsOf(n) == { <<n[1], n[2], c>> : c \in 1..Len(SvcOf(n).characteristics) }
ChrIds == UNION { ChrIdsOf(n) : n \in SvcIds }
ChrOf(n) == SvcOf(n).characteristics[n[3]]
DscIdsOf(n) == { <<n[1], n[2], n[3], d>> : d \in 1..Len(ChrOf(n).descriptors) }
DscIds == UNION { DscIdsOf(n) : n \in ChrIds }
DscOf(n) == ChrOf(n).descriptors[n[4]]

Min(S) == CHOOSE x \in S : \A y \in S : x <= y

\* ------------------------------------------------------- handle resolver

\* Profile::get_service: the first service whose handle is `handle`, or 0.
get_service(p, handle) ==
    LET hit == { s \in 1..Len(profiles[p].services) : svcHandle[<<p, s>>] = handle }
    IN  IF hit = {} THEN 0 ELSE Min(hit)

\* Profile::get_service_by_id: the first service with that UUID, or 0.
get_service_by_id(p, uuid) ==
    LET hit == { s \in 1..Len(profiles[p].services) : profiles[p].services[s].uuid = uuid }
    IN  IF hit = {} THEN 0 ELSE Min(hit)

\* Service::get_characteristic_by_id: the first characteristic with that UUID, or 0.
get_characteristic_by_id(n, uuid) ==
    LET hit == { c \in 1..Len(SvcOf(n).characteristics) :
                    SvcOf(n).characteristics[c].uuid = uuid }
    IN  IF hit = {} THEN 0 ELSE Min(hit)

\* Service::get_characteristic_by_handle: the first characteristic with that handle, or 0.
get_characteristic_by_handle(n, handle) ==
    LET hit == { c \in 1..Len(SvcOf(n).characteristics) :
                    chrHandle[<<n[1], n[2], c>>] = handle }
    IN  IF hit = {} THEN 0 ELSE Min(hit)

\* Service::get_descriptors_by_id: for each characteristic, in order, its first
\* descriptor with that UUID (filter_map over find); the result as a sequence
\* of descriptor nodes.
RECURSIVE descriptors_from(_, _, _)
descriptors_from(n, uuid, c) ==
    IF c > Len(SvcOf(n).characteristics) THEN << >>
    ELSE LET ch  == << n[1], n[2], c >>
             hit == { d \in 1..Len(ChrOf(ch).descriptors) : ChrOf(ch).descriptors[d].uuid = uuid }
         IN  (IF hit = {} THEN << >> ELSE << << n[1], n[2], c, Min(hit) >> >>)
             \o descriptors_from(n, uuid, c + 1)

get_descriptors_by_id(n, uuid) == descriptors_from(n, uuid, 1)

\* Fault injection for C33: the first of get_descriptors_by_id, with or
\* without a handle.
first_listed(ds) == IF ds = << >> THEN << >> ELSE ds[1]

\* The descriptor on_char_add_descr picks: the first of get_descriptors_by_id
\* whose attribute handle is still empty, or << >>.
first_unassigned(ds) ==
    LET hit == { i \in 1..Len(ds) : dscHandle[ds[i]] = None }
    IN  IF hit = {} THEN << >> ELSE ds[Min(hit)]

\* Service::get_descriptor_by_id, which the inline ADD_CHAR_DESCR arm calls: the
\* first descriptor of the service, in declared order, that has the UUID and
\* whose handle is still unassigned, or << >>.
get_descriptor_by_id(n, uuid) ==
    LET hit == { d \in UNION { DscIdsOf(c) : c \in ChrIdsOf(n) } :
                    DscOf(d).uuid = uuid /\ dscHandle[d] = None }
    IN  IF hit = {} THEN << >>
        ELSE CHOOSE d \in hit : \A e \in hit : d[3] < e[3] \/ (d[3] = e[3] /\ d[4] <= e[4])

\* ------------------------------------------------------------ controller

\* A command handed to the controller. `node` is the tree node the command
\* was issued for; the controller does not echo it, only the logs read it.
Cmd(kind, gatts_if, app_id, uuid, service_handle, node) ==
    [kind |-> kind, gatts_if |-> gatts_if, app_id |-> app_id, uuid |-> uuid,
     service_handle |-> service_handle, node |-> node]

\* The statuses the controller may report for the command it confirms next.
Statuses == { ESP_GATT_OK } \cup (IF ctl.fails < MaxFail THEN { ESP_GATT_ERROR } ELSE { })

\* The interface the controller reports events of service `handle` on.
OwnerIf(handle) ==
    IF \E o \in ctl.owners : o[1] = handle
    THEN (CHOOSE o \in ctl.owners : o[1] = handle)[2]
    ELSE ESP_GATT_IF_NONE

\* The controller's state after confirming a command with status st; an OK
\* confirmation of a create/add command consumes one fresh handle, an OK
\* registration one fresh interface.
Confirmed(cmd, st) ==
    [nextHandle |-> IF st = ESP_GATT_OK /\ cmd.kind \in { "CREATE", "ADD_CHAR", "ADD_CHAR_DESCR" }
                    THEN ctl.nextHandle + 1 ELSE ctl.nextHandle,
     nextIf     |-> IF st = ESP_GATT_OK /\ cmd.kind = "REG" THEN ctl.nextIf + 1 ELSE ctl.nextIf,
     fails      |-> IF st = ESP_GATT_OK THEN ctl.fails ELSE ctl.fails + 1,
     owners     |-> IF st = ESP_GATT_OK /\ cmd.kind = "CREATE"
                    THEN ctl.owners \cup { << ctl.nextHandle, cmd.gatts_if >> }
                    ELSE ctl.owners]

\* The event (esp_ble_gatts_cb_param_t and gatts_if) that confirms cmd.
Event(cmd, st) ==
    [kind |-> cmd.kind, status |-> st, app_id |-> cmd.app_id, uuid |-> cmd.uuid,
     gatts_if |->
        CASE cmd.kind = "REG" -> (IF st = ESP_GATT_OK THEN ctl.nextIf ELSE ESP_GATT_IF_NONE)
          [] cmd.kind = "CREATE" -> cmd.gatts_if
          [] OTHER -> OwnerIf(cmd.service_handle),
     service_handle |->
        IF cmd.kind = "CREATE"
        THEN (IF st = ESP_GATT_OK THEN ctl.nextHandle ELSE InvalidHandle)
        ELSE cmd.service_handle,
     attr_handle |->
        IF cmd.kind \in { "ADD_CHAR", "ADD_CHAR_DESCR" } /\ st = ESP_GATT_OK
        THEN ctl.nextHandle ELSE InvalidHandle,
     node |-> cmd.node]

\* ------------------------------------------------------------------- logs

NoCmds == [set_device_name |-> 0, config_adv_data |-> 0, config_scan_rsp |-> 0]

\* The log of one handled event: the event, the profiles the router handed it
\* to, and what the handler did (callbacks invoked, responses and pushes sent,
\* advertising restarts), in order.
NoEvent ==
    [kind |-> "NONE", status |-> ESP_GATT_OK, gatts_if |-> ESP_GATT_IF_NONE,
     node |-> << >>, handle |-> None, profiles |-> { },
     conn |-> None, was |-> { }, char |-> << >>, value |-> << >>,
     need_rsp |-> FALSE, reads |-> << >>, writes |-> << >>, rsps |-> << >>,
     calls |-> << >>, sends |-> << >>, adv |-> 0, bda |-> << >>]

Log(ev) ==
    [NoEvent EXCEPT !.kind = ev.kind, !.status = ev.status, !.gatts_if = ev.gatts_if,
                    !.node = ev.node,
                    !.handle = IF ev.kind = "CREATE" THEN ev.service_handle ELSE ev.attr_handle]

\* ------------------------------------------------------------------- Init

\* The state after construction of a server over tree t, with a controller
\* that has already reported `fails` failures.
InitWith(t, fails) ==
    /\ cfg = t
    /\ handlers \in { "split", "inline" }
    /\ interface = [p \in ProfIds |-> None]
    /\ svcHandle = [n \in SvcIds |-> None]
    /\ chrHandle = [n \in ChrIds |-> None]
    /\ dscHandle = [n \in DscIds |-> None]
    /\ advertisement_configured = FALSE
    /\ active_connections = { }
    /\ workers = << >>
    /\ pending = << >>
    /\ ctl = [nextHandle |-> FirstHandle, nextIf |-> FirstIf, fails |-> fails, owners |-> { }]
    /\ hpc = << >>
    /\ requested = { }
    /\ panicked = FALSE
    /\ cmds = NoCmds
    /\ addCharLog = [n \in SvcIds |-> << >>]
    /\ last = NoEvent
    /\ nvs = << >>

Init == \E t \in 1..Len(Trees) : InitWith(t, 0)

\* The event-delivery context is free to take the next event.
Idle == ~panicked /\ hpc = << >>

\* ------------------------------------------------- registration sequencer

\* Profile::register_self, called once per profile when the server starts:
\* esp_ble_gatts_app_register(identifier).
register_self(p) ==
    /\ ~panicked
    /\ p \notin requested
    /\ requested' = requested \cup { p }
    /\ pending' = Append(pending, Cmd("REG", None, profiles[p].identifier, None, None, << p >>))
    /\ UNCHANGED << cfg, handlers, interface, svcHandle, chrHandle, dscHandle,
                    advertisement_configured, active_connections, workers, ctl, hpc,
                    panicked, cmds, addCharLog, last, nvs >>

\* Fault injection for C22: only the first service is created.
register_services_first(p, gatts_if, s) ==
    IF s > 1 \/ s > Len(profiles[p].services) THEN << >>
    ELSE << Cmd("CREATE", gatts_if, None, profiles[p].services[s].uuid, None, << p, s >>) >>

\* Profile::register_services: one create-service command per service, in
\* declared order, each Service::register_self(interface).
RECURSIVE register_services(_, _, _)
register_services(p, gatts_if, s) ==
    IF s > Len(profiles[p].services) THEN << >>
    ELSE << Cmd("CREATE", gatts_if, None, profiles[p].services[s].uuid, None, << p, s >>) >>
         \o register_services(p, gatts_if, s + 1)

\* Profile::gatts_event_handler, REG_EVT arm, run by the router on every profile
\* whose interface is gatts_if, in order: the commands it issues.
RECURSIVE profile_reg_evt(_, _, _)
profile_reg_evt(ifs, ev, p) ==
    IF p > Len(profiles) THEN << >>
    ELSE (IF ifs[p] = ev.gatts_if /\ ev.status = ESP_GATT_OK
          THEN register_services(p, ifs[p], 1) ELSE << >>)
         \o profile_reg_evt(ifs, ev, p + 1)

\* Fault injection for C21: the search ignores the echoed identifier and
\* takes the first profile.
find_profile_first(app_id) == Min(ProfIds)

\* The first profile whose identifier is app_id, or 0.
find_profile(app_id) ==
    LET hit == { p \in ProfIds : profiles[p].identifier = app_id }
    IN  IF hit = {} THEN 0 ELSE Min(hit)

\* Fault injection for C8: the setup commands issued on every successful
\* confirmation, the flag ignored.
device_setup_always(configured) ==
    [cmds EXCEPT !.set_device_name = @ + 1,
                 !.config_adv_data = @ + 1,
                 !.config_scan_rsp = @ + 1]

\* The one-time device setup of the REG_EVT arm: set_device_name, then the
\* advertisement data and the scan response data, under the flag.
device_setup(configured) ==
    IF configured THEN cmds
    ELSE [cmds EXCEPT !.set_device_name = @ + 1,
                      !.config_adv_data = @ + 1,
                      !.config_scan_rsp = @ + 1]

\* What every handled event leaves alone.
Frame == UNCHANGED << cfg, handlers, requested, addCharLog, nvs >>

\* The controller confirms the command at the head of its queue.
Delivering(kind, st) ==
    /\ Idle
    /\ pending # << >>
    /\ Head(pending).kind = kind
    /\ st \in Statuses

\* GattServer::gatts_event_handler, REG_EVT: the server arm (record the
\* interface, one-time setup) and, as the arm does not return, the forwarding
\* of the event to the profiles registered on gatts_if.
REG_EVT ==
    \E st \in { ESP_GATT_OK, ESP_GATT_ERROR } :
        /\ Delivering("REG", st)
        /\ LET ev == Event(Head(pending), st)
               p  == find_profile(ev.app_id)
               ok == st = ESP_GATT_OK
               ifs == IF ok /\ p # 0 THEN [interface EXCEPT ![p] = ev.gatts_if] ELSE interface
           IN  /\ ctl' = Confirmed(Head(pending), st)
               /\ IF ok /\ p = 0
                  THEN /\ panicked' = TRUE
                       /\ pending' = Tail(pending)
                       /\ last' = Log(ev)
                       /\ UNCHANGED << interface, advertisement_configured, cmds >>
                  ELSE /\ interface' = ifs
                       /\ advertisement_configured' = (advertisement_configured \/ ok)
                       /\ cmds' = IF ok THEN device_setup(advertisement_configured) ELSE cmds
                       /\ pending' = Tail(pending) \o profile_reg_evt(ifs, ev, 1)
                       /\ last' = [Log(ev) EXCEPT
                                     !.profiles = { q \in ProfIds : ifs[q] = ev.gatts_if }]
                       /\ UNCHANGED panicked
        /\ UNCHANGED << svcHandle, chrHandle, dscHandle, active_connections, workers, hpc >>
        /\ Frame

\* Fault injection for C20: the forwarding loop without its interface test.
targets_all(gatts_if) == ProfIds

\* The router's forwarding loop: the profiles an event on gatts_if is handed to.
targets(gatts_if) == { p \in ProfIds : interface[p] = gatts_if }

\* The event is logged and discarded; no node changes.
Dropped ==
    /\ pending' = Tail(pending)
    /\ UNCHANGED << svcHandle, chrHandle, dscHandle, workers, hpc, panicked >>

\* Service::register_characteristics: nothing for a service without
\* characteristics, else one spawned thread that owns the service handle and
\* the list of characteristics.
register_characteristics(n, service_handle) ==
    IF Len(SvcOf(n).characteristics) = 0 THEN workers
    ELSE Append(workers, [svc |-> n, service_handle |-> service_handle,
                          idx |-> 1, waiting |-> FALSE])

\* Fault injection for C23: the characteristics are registered without the
\* service having been started.
on_create_unstarted(p, ev) ==
    LET s == get_service_by_id(p, ev.uuid)
        n == << p, s >>
    IN  IF s = 0 THEN Dropped
        ELSE /\ svcHandle' = [svcHandle EXCEPT ![n] = ev.service_handle]
             /\ pending' = Tail(pending)
             /\ workers' = IF ev.status = ESP_GATT_OK
                            THEN register_characteristics(n, ev.service_handle)
                            ELSE workers
             /\ UNCHANGED << chrHandle, dscHandle, hpc, panicked >>

\* Profile::on_create.
on_create(p, ev) ==
    LET s == get_service_by_id(p, ev.uuid)
        n == << p, s >>
    IN  IF s = 0 THEN Dropped
        ELSE /\ svcHandle' = [svcHandle EXCEPT ![n] = ev.service_handle]
             /\ IF ev.status = ESP_GATT_OK
                THEN /\ pending' = Append(Tail(pending),
                            Cmd("START", None, None, None, ev.service_handle, n))
                     /\ workers' = register_characteristics(n, ev.service_handle)
                ELSE /\ pending' = Tail(pending)
                     /\ UNCHANGED workers
             /\ UNCHANGED << chrHandle, dscHandle, hpc, panicked >>

\* Profile::gatts_event_handler, CREATE_EVT arm.
profile_create_evt(p, ev) ==
    LET s == get_service_by_id(p, ev.uuid)
        n == << p, s >>
    IN  IF s # 0
        THEN /\ svcHandle' = [svcHandle EXCEPT ![n] = ev.service_handle]
             /\ IF ev.status # ESP_GATT_OK
                THEN /\ pending' = Tail(pending)
                     /\ UNCHANGED workers
                ELSE /\ pending' = Append(Tail(pending),
                            Cmd("START", None, None, None, ev.service_handle, n))
                     /\ workers' = register_characteristics(n, ev.service_handle)
             /\ UNCHANGED << chrHandle, dscHandle, hpc, panicked >>
        ELSE Dropped

\* Profile::on_char_add up to the write of the attribute handle; the call of
\* register_descriptors that follows is the step RegisterDescriptors.
on_char_add(p, ev) ==
    LET s == get_service(p, ev.service_handle)
        n == << p, s >>
        c == IF s = 0 THEN 0 ELSE get_characteristic_by_id(n, ev.uuid)
    IN  IF s = 0 \/ c = 0 THEN Dropped
        ELSE IF ev.status = ESP_GATT_OK
             THEN /\ chrHandle' = [chrHandle EXCEPT ![<< p, s, c >>] = ev.attr_handle]
                  /\ hpc' = << << p, s, c >>, ev.service_handle >>
                  /\ pending' = Tail(pending)
                  /\ UNCHANGED << svcHandle, dscHandle, workers, panicked >>
             ELSE Dropped

\* Profile::gatts_event_handler, ADD_CHAR_EVT arm, up to the same point.
profile_add_char_evt(p, ev) ==
    LET s == get_service(p, ev.service_handle)
        n == << p, s >>
        c == IF s = 0 THEN 0 ELSE get_characteristic_by_id(n, ev.uuid)
    IN  IF s # 0 /\ c # 0
        THEN IF ev.status # ESP_GATT_OK
             THEN Dropped
             ELSE /\ chrHandle' = [chrHandle EXCEPT ![<< p, s, c >>] = ev.attr_handle]
                  /\ hpc' = << << p, s, c >>, ev.service_handle >>
                  /\ pending' = Tail(pending)
                  /\ UNCHANGED << svcHandle, dscHandle, workers, panicked >>
        ELSE Dropped

\* Characteristic::register_descriptors: one add-descriptor command per
\* descriptor, in declared order, none awaited.
RECURSIVE register_descriptors(_, _, _)
register_descriptors(c, service_handle, d) ==
    IF d > Len(ChrOf(c).descriptors) THEN << >>
    ELSE << Cmd("ADD_CHAR_DESCR", None, None, ChrOf(c).descriptors[d].uuid, service_handle,
                << c[1], c[2], c[3], d >>) >>
         \o register_descriptors(c, service_handle, d + 1)

\* Profile::on_char_add_descr.
on_char_add_descr(p, ev) ==
    LET s == get_service(p, ev.service_handle)
        descriptors == IF s = 0 THEN << >> ELSE get_descriptors_by_id(<< p, s >>, ev.uuid)
        descriptor  == first_unassigned(descriptors)
    IN  IF s = 0 \/ descriptor = << >> THEN Dropped
        ELSE IF ev.status = ESP_GATT_OK
             THEN /\ dscHandle' = [dscHandle EXCEPT ![descriptor] = ev.attr_handle]
                  /\ pending' = Tail(pending)
                  /\ UNCHANGED << svcHandle, chrHandle, workers, hpc, panicked >>
             ELSE Dropped

\* Profile::gatts_event_handler, ADD_CHAR_DESCR_EVT arm.
profile_add_char_descr_evt(p, ev) ==
    LET s == get_service(p, ev.service_handle)
        descriptor == IF s = 0 THEN << >> ELSE get_descriptor_by_id(<< p, s >>, ev.uuid)
    IN  IF s # 0 /\ descriptor # << >>
        THEN IF ev.status # ESP_GATT_OK
             THEN Dropped
             ELSE /\ dscHandle' = [dscHandle EXCEPT ![descriptor] = ev.attr_handle]
                  /\ pending' = Tail(pending)
                  /\ UNCHANGED << svcHandle, chrHandle, workers, hpc, panicked >>
        ELSE Dropped

\* ----------------------------------------------------------- event router

\* GattServer::gatts_event_handler for an event no server arm consumes: the
\* controller's bookkeeping and the log of the profiles the event is handed to
\* (interfaces are distinct, InterfacesDistinct, so the loop hands it to at
\* most one profile).
Router(ev, st) ==
    /\ ctl' = Confirmed(Head(pending), st)
    /\ last' = [Log(ev) EXCEPT !.profiles = targets(ev.gatts_if)]
    /\ UNCHANGED << interface, advertisement_configured, active_connections, cmds >>
    /\ Frame

CREATE_EVT_split ==
    /\ handlers = "split"
    /\ \E st \in { ESP_GATT_OK, ESP_GATT_ERROR } :
          /\ Delivering("CREATE", st)
          /\ LET ev == Event(Head(pending), st)
             IN  /\ Router(ev, st)
                 /\ IF targets(ev.gatts_if) = { } THEN Dropped
                    ELSE \E p \in targets(ev.gatts_if) : on_create(p, ev)

CREATE_EVT_inline ==
    /\ handlers = "inline"
    /\ \E st \in { ESP_GATT_OK, ESP_GATT_ERROR } :
          /\ Delivering("CREATE", st)
          /\ LET ev == Event(Head(pending), st)
             IN  /\ Router(ev, st)
                 /\ IF targets(ev.gatts_if) = { } THEN Dropped
                    ELSE \E p \in targets(ev.gatts_if) : profile_create_evt(p, ev)

\* Profile::gatts_event_handler, START_EVT arm: the service is looked up and
\* the outcome logged; nothing changes.
START_EVT ==
    \E st \in { ESP_GATT_OK, ESP_GATT_ERROR } :
        /\ Delivering("START", st)
        /\ Router(Event(Head(pending), st), st)
        /\ Dropped

ADD_CHAR_EVT_split ==
    /\ handlers = "split"
    /\ \E st \in { ESP_GATT_OK, ESP_GATT_ERROR } :
          /\ Delivering("ADD_CHAR", st)
          /\ LET ev == Event(Head(pending), st)
             IN  /\ Router(ev, st)
                 /\ IF targets(ev.gatts_if) = { } THEN Dropped
                    ELSE \E p \in targets(ev.gatts_if) : on_char_add(p, ev)

ADD_CHAR_EVT_inline ==
    /\ handlers = "inline"
    /\ \E st \in { ESP_GATT_OK, ESP_GATT_ERROR } :
          /\ Delivering("ADD_CHAR", st)
          /\ LET ev == Event(Head(pending), st)
             IN  /\ Router(ev, st)
                 /\ IF targets(ev.gatts_if) = { } THEN Dropped
                    ELSE \E p \in targets(ev.gatts_if) : profile_add_char_evt(p, ev)

\* The second half of the add-characteristic handler:
\* characteristic.write().register_descriptors(), after the lock taken for
\* the handle write was released.
RegisterDescriptors ==
    /\ ~panicked
    /\ hpc # << >>
    /\ pending' = pending \o register_descriptors(hpc[1], hpc[2], 1)
    /\ hpc' = << >>
    /\ UNCHANGED << interface, svcHandle, chrHandle, dscHandle, advertisement_configured,
                    active_connections, workers, ctl, panicked, cmds, last >>
    /\ Frame

ADD_CHAR_DESCR_EVT_split ==
    /\ handlers = "split"
    /\ \E st \in { ESP_GATT_OK, ESP_GATT_ERROR } :
          /\ Delivering("ADD_CHAR_DESCR", st)
          /\ LET ev == Event(Head(pending), st)
             IN  /\ Router(ev, st)
                 /\ IF targets(ev.gatts_if) = { } THEN Dropped
                    ELSE \E p \in targets(ev.gatts_if) : on_char_add_descr(p, ev)

ADD_CHAR_DESCR_EVT_inline ==
    /\ handlers = "inline"
    /\ \E st \in { ESP_GATT_OK, ESP_GATT_ERROR } :
          /\ Delivering("ADD_CHAR_DESCR", st)
          /\ LET ev == Event(Head(pending), st)
             IN  /\ Router(ev, st)
                 /\ IF targets(ev.gatts_if) = { } THEN Dropped
                    ELSE \E p \in targets(ev.gatts_if) : profile_add_char_descr_evt(p, ev)

\* --------------------------------------------- the registration worker

\* The thread of register_characteristics at c.write().register_self(service_handle):
\* Characteristic::register_self issues the add-characteristic command.
WorkerIssue(w) ==
    LET t == workers[w]
        c == << t.svc[1], t.svc[2], t.idx >>
    IN  /\ ~panicked
        /\ ~t.waiting
        /\ t.idx <= Len(SvcOf(t.svc).characteristics)
        /\ pending' = Append(pending,
                Cmd("ADD_CHAR", None, None, ChrOf(c).uuid, t.service_handle, c))
        /\ addCharLog' = [addCharLog EXCEPT ![t.svc] = Append(@, t.idx)]
        /\ workers' = [workers EXCEPT ![w].waiting = TRUE]
        /\ UNCHANGED << cfg, handlers, requested, interface, svcHandle, chrHandle, dscHandle,
                        advertisement_configured, active_connections, ctl, hpc, panicked,
                        cmds, last, nvs >>

\* Fault injection for C2: the thread goes on to the next characteristic
\* without waiting for the handle.
WorkerProceed_nowait(w) ==
    LET t == workers[w]
    IN  /\ ~panicked
        /\ t.waiting
        /\ workers' = [workers EXCEPT ![w].waiting = FALSE, ![w].idx = @ + 1]
        /\ UNCHANGED << cfg, handlers, requested, interface, svcHandle, chrHandle, dscHandle,
                        advertisement_configured, active_connections, pending, ctl, hpc,
                        panicked, cmds, addCharLog, last, nvs >>

\* The thread leaves `while c.read().attribute_handle.is_none()`: it saw a
\* handle and moves to the next characteristic (or ends).
WorkerProceed(w) ==
    LET t == workers[w]
        c == << t.svc[1], t.svc[2], t.idx >>
    IN  /\ ~panicked
        /\ t.waiting
        /\ chrHandle[c] # None
        /\ workers' = [workers EXCEPT ![w].waiting = FALSE, ![w].idx = @ + 1]
        /\ UNCHANGED << cfg, handlers, requested, interface, svcHandle, chrHandle, dscHandle,
                        advertisement_configured, active_connections, pending, ctl, hpc,
                        panicked, cmds, addCharLog, last, nvs >>

\* ------------------------------------------------------------ connections

\* The clients the controller may connect: Connection { id, remote_bda }.
Connections ==
    { [id |-> 0, remote_bda |-> << 16, 0, 0, 0, 0, 1 >>],
      [id |-> 1, remote_bda |-> << 16, 0, 0, 0, 0, 2 >> ] }

\* Registration traffic has drained: nothing is queued in the controller, no
\* handler is in progress and no worker can take a step. Clients connect, read,
\* write and are notified from such states on.
AtRest ==
    /\ Idle
    /\ pending = << >>
    /\ requested = ProfIds
    /\ \A w \in 1..Len(workers) :
          LET t == workers[w]
          IN  IF t.waiting THEN chrHandle[<< t.svc[1], t.svc[2], t.idx >>] = None
              ELSE t.idx > Len(SvcOf(t.svc).characteristics)

\* Connection's Eq and Hash: the active set is keyed by the connection identifier.
same_connection(a, b) == a.id = b.id

\* Fault injection for C26: the connection is not recorded.
insert_none(set, c) == set

\* HashSet::insert: an entry with an equal key is kept, not replaced.
insert(set, c) == IF \E e \in set : same_connection(e, c) THEN set ELSE set \cup { c }

\* Fault injection for C9: a disconnect that removes nothing.
remove_none(set, c) == set

\* HashSet::remove.
remove(set, c) == { e \in set : ~same_connection(e, c) }

\* What an event that no profile handles leaves alone.
ServerFrame ==
    /\ UNCHANGED << interface, svcHandle, chrHandle, dscHandle, advertisement_configured,
                    workers, pending, ctl, hpc, cmds >>
    /\ Frame

\* Fault injection for C14: no server arm returns.
returns_never(kind) == FALSE

\* The server arms that end in `return`: the event is not passed to the
\* forwarding loop. The REG_EVT arm has no return.
returns_early(kind) == kind \in { "CONNECT", "DISCONNECT", "MTU", "RESPONSE", "SET_ATTR_VAL" }

\* The profiles whose gatts_event_handler an event of that kind on gatts_if
\* is handed to.
forwarded_to(kind, gatts_if) == IF returns_early(kind) THEN { } ELSE targets(gatts_if)

\* The interfaces a connection-level event may be reported on: those of the
\* registered profiles, or none.
ServerIfs ==
    IF \E p \in ProfIds : interface[p] # None
    THEN { interface[p] : p \in ProfIds } \ { None }
    ELSE { ESP_GATT_IF_NONE }

\* GattServer::gatts_event_handler, CONNECT_EVT.
CONNECT_EVT ==
    \E c \in Connections, g \in ServerIfs :
        /\ AtRest
        /\ active_connections' = insert(active_connections, c)
        /\ last' = [NoEvent EXCEPT !.kind = "CONNECT", !.conn = c.id, !.gatts_if = g,
                                   !.profiles = forwarded_to("CONNECT", g),
                                   !.was = active_connections]
        /\ UNCHANGED panicked
        /\ ServerFrame

\* Fault injection for C27: advertising is restarted only when the
\* connection was recorded and no other connection stays active.
start_advertising_if_last(set, c) ==
    IF (\E e \in set : same_connection(e, c)) /\ remove(set, c) = { } THEN 1 ELSE 0

\* The esp_ble_gap_start_advertising calls of the DISCONNECT_EVT arm for a
\* disconnect of c with the active set `set`: one, unconditionally, its
\* result ignored.
start_advertising(set, c) == 1

\* GattServer::gatts_event_handler, DISCONNECT_EVT: remove the connection and
\* restart advertising.
DISCONNECT_EVT ==
    \E c \in Connections, g \in ServerIfs :
        /\ AtRest
        /\ active_connections' = remove(active_connections, c)
        /\ last' = [NoEvent EXCEPT !.kind = "DISCONNECT", !.conn = c.id, !.gatts_if = g,
                                   !.profiles = forwarded_to("DISCONNECT", g),
                                   !.was = active_connections,
                                   !.adv = start_advertising(active_connections, c)]
        /\ UNCHANGED panicked
        /\ ServerFrame

\* GattServer::gatts_event_handler, MTU_EVT: the new MTU is logged.
MTU_EVT ==
    \E c \in active_connections, g \in ServerIfs :
        /\ AtRest
        /\ last' = [NoEvent EXCEPT !.kind = "MTU", !.conn = c.id, !.gatts_if = g,
                                   !.profiles = forwarded_to("MTU", g),
                                   !.was = active_connections]
        /\ UNCHANGED << active_connections, panicked >>
        /\ ServerFrame

\* GattServer::gatts_event_handler, RESPONSE_EVT: the handle is logged.
RESPONSE_EVT ==
    \E c \in active_connections, g \in ServerIfs :
        /\ AtRest
        /\ last' = [NoEvent EXCEPT !.kind = "RESPONSE", !.conn = c.id, !.gatts_if = g,
                                   !.profiles = forwarded_to("RESPONSE", g),
                                   !.was = active_connections]
        /\ UNCHANGED << active_connections, panicked >>
        /\ ServerFrame

\* ------------------------------------------------------------------ bytes

\* A byte string is kept as runs << n, b >> of n bytes b, so that a buffer of
\* 600 bytes stays small.
RECURSIVE ByteLen(_)
ByteLen(v) == IF v = << >> THEN 0 ELSE Head(v)[1] + ByteLen(Tail(v))

\* The first byte of a byte string (0 of an empty one).
RECURSIVE FirstByte(_)
FirstByte(v) ==
    IF v = << >> THEN 0
    ELSE IF Head(v)[1] > 0 THEN Head(v)[2] ELSE FirstByte(Tail(v))

\* [0u8; 600] with response[..value.len()].copy_from_slice(&value): the value
\* followed by zeros up to the buffer size. The slice index panics for a
\* longer value; the caller tests Fits first.
Fits(value) == ByteLen(value) <= RspBufLen

\* Fault injection for C10: the value without the zero padding.
response_buffer_unpadded(value) == value

response_buffer(value) ==
    IF ByteLen(value) = RspBufLen THEN value
    ELSE value \o << << RspBufLen - ByteLen(value), 0 >> >>

\* esp_gatt_rsp_t as handed to esp_ble_gatts_send_response.
Rsp(conn_id, handle, value) ==
    [conn_id |-> conn_id, handle |-> handle, len |-> ByteLen(value) % 65536,
     value |-> response_buffer(value)]

\* ------------------------------------------------------------------- CCCD

\* The key of the CCCD closures: the octets 2..5 of the address (bda[2]..bda[5],
\* here positions 3..6) and the handle, formatted in fixed-width hex.
cccd_key(bda, handle) == << bda[3], bda[4], bda[5], bda[6], handle >>

\* Descriptor::cccd, on_read: the stored value, or [0, 0].
cccd_on_read(bda, handle) ==
    IF cccd_key(bda, handle) \in DOMAIN nvs THEN nvs[cccd_key(bda, handle)]
    ELSE << << 2, 0 >> >>

\* Descriptor::cccd, on_write: the storage after set_raw(key, value).
cccd_on_write(bda, handle, value) ==
    [k \in DOMAIN nvs \cup { cccd_key(bda, handle) } |->
        IF k = cccd_key(bda, handle) THEN value ELSE nvs[k]]

\* The first descriptor of characteristic c with the CCCD UUID, or 0.
find_cccd(c) ==
    LET hit == { d \in 1..Len(ChrOf(c).descriptors) : ChrOf(c).descriptors[d].uuid = UuidCCCD }
    IN  IF hit = {} THEN 0 ELSE Min(hit)

\* Characteristic::get_cccd_status: the CCCD's read callback run on the
\* simulated read, decoded as << notification, indication >>; << >> (None)
\* when the characteristic has no CCCD with a read callback.
get_cccd_status(c, bda, handle) ==
    LET d == find_cccd(c)
    IN  IF d = 0 \/ ChrOf(c).descriptors[d].control # "ResponseByApp" THEN << >>
        ELSE LET b == FirstByte(cccd_on_read(bda, handle))
             IN  << b % 2 = 1, (b \div 2) % 2 = 1 >>

\* The CCCD state on_set_attr_val reads for a connection: the status of the
\* characteristic's first CCCD descriptor under that descriptor's handle,
\* << notification, indication >>, or << >> when there is none.
persisted_cccd(c, connection) ==
    LET d == find_cccd(c)
    IN  IF d = 0 THEN << >>
        ELSE IF dscHandle[<< c[1], c[2], c[3], d >>] = None THEN << >>
        ELSE get_cccd_status(c, connection.remote_bda, dscHandle[<< c[1], c[2], c[3], d >>])

\* --------------------------------------------- value-change notification

\* GattServer::get_profile: the first profile registered on gatts_if, or 0.
get_profile(gatts_if) ==
    LET hit == { p \in ProfIds : interface[p] = gatts_if }
    IN  IF hit = {} THEN 0 ELSE Min(hit)

\* Service::get_characteristic, which the inline SET_ATTR_VAL_EVT arm calls:
\* the characteristic of the service with that attribute handle, or 0.
get_characteristic(n, handle) ==
    LET hit == { c \in 1..Len(SvcOf(n).characteristics) :
                    chrHandle[<<n[1], n[2], c>>] = handle }
    IN  IF hit = {} THEN 0 ELSE Min(hit)

\* One esp_ble_gatts_send_indicate call: the connection, need_confirm (TRUE
\* an indicate, FALSE a notify) and whether the controller accepted it.
Send(conn_id, need_confirm, rejected) ==
    [conn_id |-> conn_id, need_confirm |-> need_confirm, accepted |-> conn_id \notin rejected]

\* The loop of on_set_attr_val over the active connections, taken in the
\* order `order` from position i on: the sends made and whether it panicked.
\* The unwraps panic on a characteristic without CCCD or with a CCCD that has
\* no handle; a None status returns from the handler; a rejected send is
\* logged and the loop goes on.
RECURSIVE set_attr_val_loop(_, _, _, _)
set_attr_val_loop(c, order, i, rejected) ==
    IF i > Len(order) THEN [sends |-> << >>, panicked |-> FALSE]
    ELSE LET connection == order[i]
             d == find_cccd(c)
         IN  IF d = 0 \/ dscHandle[<< c[1], c[2], c[3], d >>] = None
             THEN [sends |-> << >>, panicked |-> TRUE]
             ELSE LET status == get_cccd_status(c, connection.remote_bda,
                                                dscHandle[<< c[1], c[2], c[3], d >>])
                      rest == set_attr_val_loop(c, order, i + 1, rejected)
                  IN  IF status = << >> THEN [sends |-> << >>, panicked |-> FALSE]
                      ELSE IF ChrOf(c).indicate /\ status[2]
                           THEN [rest EXCEPT !.sends =
                                    << Send(connection.id, TRUE, rejected) >> \o @]
                           ELSE IF ChrOf(c).notify /\ status[1]
                                THEN [rest EXCEPT !.sends =
                                        << Send(connection.id, FALSE, rejected) >> \o @]
                                ELSE rest

\* GattServer::on_set_attr_val: the characteristic the event resolves to
\* (<< >> when a lookup fails) and the outcome of the loop.
on_set_attr_val(gatts_if, srvc_handle, attr_handle, order, rejected) ==
    LET p == get_profile(gatts_if)
        s == IF p = 0 THEN 0 ELSE get_service(p, srvc_handle)
        c == IF s = 0 THEN 0 ELSE get_characteristic_by_handle(<< p, s >>, attr_handle)
    IN  IF c = 0 THEN [char |-> << >>, sends |-> << >>, panicked |-> FALSE]
        ELSE [char |-> << p, s, c >>] @@ set_attr_val_loop(<< p, s, c >>, order, 1, rejected)

\* The loops of the inline SET_ATTR_VAL_EVT arm: every active connection is
\* sent to under esp_nofail!, which aborts on the first rejected send.
RECURSIVE send_all_nofail(_, _, _, _)
send_all_nofail(order, i, need_confirm, rejected) ==
    IF i > Len(order) THEN [sends |-> << >>, panicked |-> FALSE]
    ELSE IF order[i].id \in rejected
         THEN [sends |-> << Send(order[i].id, need_confirm, rejected) >>, panicked |-> TRUE]
         ELSE [send_all_nofail(order, i + 1, need_confirm, rejected) EXCEPT !.sends =
                    << Send(order[i].id, need_confirm, rejected) >> \o @]

\* GattServer::gatts_event_handler, SET_ATTR_VAL_EVT arm.
server_set_attr_val_evt(gatts_if, srvc_handle, attr_handle, order, rejected) ==
    LET p == get_profile(gatts_if)
        s == IF p = 0 THEN 0 ELSE get_service(p, srvc_handle)
        c == IF s = 0 THEN 0 ELSE get_characteristic(<< p, s >>, attr_handle)
    IN  IF c = 0 THEN [char |-> << >>, sends |-> << >>, panicked |-> FALSE]
        ELSE [char |-> << p, s, c >>] @@
             (IF ChrOf(<< p, s, c >>).indicate THEN send_all_nofail(order, 1, TRUE, rejected)
              ELSE IF ChrOf(<< p, s, c >>).notify THEN send_all_nofail(order, 1, FALSE, rejected)
              ELSE [sends |-> << >>, panicked |-> FALSE])

\* The orders in which a HashSet of connections may be iterated.
Orders(set) ==
    { o \in [1..Cardinality(set) -> set] : \A i, j \in 1..Cardinality(set) : i # j => o[i] # o[j] }

\* The attribute-value-set confirmations the controller may deliver: for a
\* registered characteristic, on its profile's interface, with either status.
SetAttrValParams ==
    { [gatts_if |-> interface[c[1]], srvc_handle |-> svcHandle[<< c[1], c[2] >>],
       attr_handle |-> chrHandle[c], status |-> st] :
        c \in { x \in ChrIds : chrHandle[x] # None }, st \in { ESP_GATT_OK, ESP_GATT_ERROR } }

\* The server after a SET_ATTR_VAL_EVT whose handler had the outcome r.
SetAttrValDone(param, r) ==
    /\ panicked' = r.panicked
    /\ last' = [NoEvent EXCEPT !.kind = "SET_ATTR_VAL", !.status = param.status,
                               !.gatts_if = param.gatts_if, !.handle = param.attr_handle,
                               !.char = r.char, !.was = active_connections,
                               !.profiles = forwarded_to("SET_ATTR_VAL", param.gatts_if),
                               !.sends = r.sends]
    /\ UNCHANGED active_connections
    /\ ServerFrame

SET_ATTR_VAL_EVT_split ==
    /\ handlers = "split"
    /\ AtRest
    /\ \E param \in SetAttrValParams, order \in Orders(active_connections),
          rejected \in SUBSET { c.id : c \in active_connections } :
          SetAttrValDone(param, on_set_attr_val(param.gatts_if, param.srvc_handle,
                                                param.attr_handle, order, rejected))

SET_ATTR_VAL_EVT_inline ==
    /\ handlers = "inline"
    /\ AtRest
    /\ \E param \in SetAttrValParams, order \in Orders(active_connections),
          rejected \in SUBSET { c.id : c \in active_connections } :
          SetAttrValDone(param, server_set_attr_val_evt(param.gatts_if, param.srvc_handle,
                                                        param.attr_handle, order, rejected))

\* A client writes its CCCD: the write callback of Descriptor::cccd stores
\* the two bytes under the key of the writing connection and the handle.
CccdValues == { << << 1, 1 >>, << 1, 0 >> >>, << << 1, 2 >>, << 1, 0 >> >>,
                << << 1, 3 >>, << 1, 0 >> >> }

CCCD_write ==
    /\ AtRest
    /\ \E c \in active_connections, d \in DscIds, value \in CccdValues :
          /\ DscOf(d).uuid = UuidCCCD
          /\ DscOf(d).control = "ResponseByApp"
          /\ dscHandle[d] # None
          /\ nvs' = cccd_on_write(c.remote_bda, dscHandle[d], value)
          /\ last' = [NoEvent EXCEPT !.kind = "CCCD_WRITE", !.conn = c.id]
    /\ UNCHANGED << cfg, handlers, requested, addCharLog, interface, svcHandle, chrHandle,
                    dscHandle, advertisement_configured, active_connections, workers,
                    pending, ctl, hpc, panicked, cmds >>

\* ------------------------------------------------------- read and write

\* The characteristics of profile p in the order the handlers visit them:
\* service by service, each service's characteristics in declared order.
RECURSIVE characteristics_from(_, _, _)
characteristics_from(p, s, c) ==
    IF s > Len(profiles[p].services) THEN << >>
    ELSE IF c > Len(profiles[p].services[s].characteristics)
         THEN characteristics_from(p, s + 1, 1)
         ELSE << << p, s, c >> >> \o characteristics_from(p, s, c + 1)

\* The descriptors of characteristic c, from position d on, whose handle is
\* `handle` and whose control is ResponseByApp.
RECURSIVE descriptors_read(_, _, _)
descriptors_read(c, d, handle) ==
    IF d > Len(ChrOf(c).descriptors) THEN << >>
    ELSE (IF dscHandle[<< c[1], c[2], c[3], d >>] = handle
             /\ ChrOf(c).descriptors[d].control = "ResponseByApp"
          THEN << << c[1], c[2], c[3], d >> >> ELSE << >>)
         \o descriptors_read(c, d + 1, handle)

\* Fault injection for C30: the control policy of the characteristic is not
\* looked at.
RECURSIVE on_read_nodes_any(_, _, _)
on_read_nodes_any(cs, i, handle) ==
    IF i > Len(cs) THEN << >>
    ELSE (IF chrHandle[cs[i]] = handle THEN << cs[i] >>
          ELSE descriptors_read(cs[i], 1, handle))
         \o on_read_nodes_any(cs, i + 1, handle)

\* Profile::on_read: the nodes whose read callback the loops reach, in order: a
\* characteristic with the handle if it is ResponseByApp, otherwise the
\* descriptors of the characteristic that have the handle and are ResponseByApp.
RECURSIVE on_read_nodes(_, _, _)
on_read_nodes(cs, i, handle) ==
    IF i > Len(cs) THEN << >>
    ELSE (IF chrHandle[cs[i]] = handle
          THEN (IF ChrOf(cs[i]).control = "ResponseByApp" THEN << cs[i] >> ELSE << >>)
          ELSE descriptors_read(cs[i], 1, handle))
         \o on_read_nodes(cs, i + 1, handle)

\* Profile::gatts_event_handler, READ_EVT arm: only characteristics are
\* answered; a descriptor with the handle is logged.
RECURSIVE profile_read_nodes(_, _, _)
profile_read_nodes(cs, i, handle) ==
    IF i > Len(cs) THEN << >>
    ELSE (IF chrHandle[cs[i]] = handle /\ ChrOf(cs[i]).control = "ResponseByApp"
          THEN << cs[i] >> ELSE << >>)
         \o profile_read_nodes(cs, i + 1, handle)

\* What the read callback of node n returns: the closure of Descriptor::cccd
\* for a CCCD descriptor, else the bytes `value` the application hands back.
read_callback(n, param, value) ==
    IF Len(n) = 4 /\ DscOf(n).uuid = UuidCCCD
    THEN cccd_on_read(param.bda, param.handle)
    ELSE value

\* The callback-and-respond block, run for the nodes `nodes` from position i
\* on: each callback is invoked, its value copied into the response buffer
\* (a panic when it does not fit) and the response sent.
RECURSIVE respond(_, _, _, _)
respond(nodes, i, param, value) ==
    IF i > Len(nodes)
    THEN [reads |-> << >>, rsps |-> << >>, calls |-> << >>, panicked |-> FALSE]
    ELSE LET v == read_callback(nodes[i], param, value)
             rest == respond(nodes, i + 1, param, value)
         IN  IF ~Fits(v)
             THEN [reads |-> << nodes[i] >>, rsps |-> << >>,
                   calls |-> << << "read", nodes[i] >> >>, panicked |-> TRUE]
             ELSE [rest EXCEPT !.reads = << nodes[i] >> \o @,
                               !.rsps = << Rsp(param.conn_id, param.handle, v) >> \o @,
                               !.calls = << << "read", nodes[i] >>, << "rsp", nodes[i] >> >> \o @]

\* Profile::on_read.
on_read(p, param, value) ==
    respond(on_read_nodes(characteristics_from(p, 1, 1), 1, param.handle), 1, param, value)

\* Profile::gatts_event_handler, READ_EVT arm.
profile_read_evt(p, param, value) ==
    respond(profile_read_nodes(characteristics_from(p, 1, 1), 1, param.handle), 1, param, value)

\* Fault injection for C12: the response is built from the read callback
\* before the write callback has been given the payload.
RECURSIVE profile_write_evt_read_first(_, _, _, _)
profile_write_evt_read_first(cs, i, param, value) ==
    IF i > Len(cs)
    THEN [writes |-> << >>, reads |-> << >>, rsps |-> << >>, calls |-> << >>,
          panicked |-> FALSE]
    ELSE LET rest == profile_write_evt_read_first(cs, i + 1, param, value)
         IN  IF chrHandle[cs[i]] = param.handle /\ ChrOf(cs[i]).write_callback
             THEN [rest EXCEPT !.writes = << cs[i] >> \o @,
                               !.reads = << cs[i] >> \o @,
                               !.rsps = << Rsp(param.conn_id, param.handle, value) >> \o @,
                               !.calls = << << "read", cs[i] >>, << "rsp", cs[i] >>,
                                            << "write", cs[i] >> >> \o @]
             ELSE rest

\* Fault injection for C28: a write to the handle of a descriptor is taken as
\* a write to the characteristic that owns the descriptor.
RECURSIVE profile_write_evt_owner(_, _, _, _)
profile_write_evt_owner(cs, i, param, value) ==
    IF i > Len(cs)
    THEN [writes |-> << >>, reads |-> << >>, rsps |-> << >>, calls |-> << >>,
          panicked |-> FALSE]
    ELSE LET rest == profile_write_evt_owner(cs, i + 1, param, value)
         IN  IF \/ chrHandle[cs[i]] = param.handle
                \/ \E d \in DscIdsOf(cs[i]) : dscHandle[d] = param.handle
             THEN [rest EXCEPT !.writes = << cs[i] >> \o @,
                               !.calls = << << "write", cs[i] >> >> \o @]
             ELSE rest

\* Profile::gatts_event_handler, WRITE_EVT arm, for the characteristics cs from
\* position i on: a characteristic with the handle and a write callback gets
\* the payload; if a response is needed and its control is ResponseByApp the
\* read callback is invoked and its value sent back.
RECURSIVE profile_write_evt(_, _, _, _)
profile_write_evt(cs, i, param, value) ==
    IF i > Len(cs)
    THEN [writes |-> << >>, reads |-> << >>, rsps |-> << >>, calls |-> << >>,
          panicked |-> FALSE]
    ELSE LET rest == profile_write_evt(cs, i + 1, param, value)
         IN  IF chrHandle[cs[i]] = param.handle /\ ChrOf(cs[i]).write_callback
             THEN IF param.need_rsp /\ ChrOf(cs[i]).control = "ResponseByApp"
                  THEN IF ~Fits(value)
                       THEN [writes |-> << cs[i] >>, reads |-> << cs[i] >>, rsps |-> << >>,
                             calls |-> << << "write", cs[i] >>, << "read", cs[i] >> >>,
                             panicked |-> TRUE]
                       ELSE [rest EXCEPT !.writes = << cs[i] >> \o @,
                                         !.reads = << cs[i] >> \o @,
                                         !.rsps = << Rsp(param.conn_id, param.handle, value) >> \o @,
                                         !.calls = << << "write", cs[i] >>, << "read", cs[i] >>,
                                                      << "rsp", cs[i] >> >> \o @]
                  ELSE [rest EXCEPT !.writes = << cs[i] >> \o @,
                                    !.calls = << << "write", cs[i] >> >> \o @]
             ELSE rest

\* The byte strings a read callback of the application may return.
ReadValues ==
    { << >>, << << 2, 7 >> >>, << << RspBufLen, 7 >> >>, << << RspBufLen + 1, 7 >> >> }

\* The attribute handles a request may name: those of the registered
\* characteristics and descriptors.
RequestHandles ==
    ({ chrHandle[c] : c \in ChrIds } \cup { dscHandle[d] : d \in DscIds }) \ { None }

\* The read and write requests the controller may deliver: from an active
\* connection, on the interface of a registered profile.
Requests ==
    { [gatts_if |-> g, conn_id |-> c.id, bda |-> c.remote_bda, handle |-> h, need_rsp |-> n] :
        g \in { interface[p] : p \in ProfIds } \ { None }, c \in active_connections,
        h \in RequestHandles, n \in BOOLEAN }

\* The server after a read or write request whose handler had the outcome r.
RequestDone(kind, param, value, r) ==
    /\ panicked' = r.panicked
    /\ last' = [NoEvent EXCEPT !.kind = kind, !.gatts_if = param.gatts_if,
                               !.handle = param.handle, !.conn = param.conn_id,
                               !.need_rsp = param.need_rsp,
                               !.profiles = targets(param.gatts_if), !.value = value,
                               !.reads = r.reads, !.writes = r.writes, !.rsps = r.rsps,
                               !.calls = r.calls]
    /\ UNCHANGED active_connections
    /\ ServerFrame

NoRequest ==
    [reads |-> << >>, writes |-> << >>, rsps |-> << >>, calls |-> << >>, panicked |-> FALSE]

READ_EVT_split ==
    /\ handlers = "split"
    /\ AtRest
    /\ \E param \in { r \in Requests : ~r.need_rsp }, value \in ReadValues :
          RequestDone("READ", param, value,
              IF targets(param.gatts_if) = { } THEN NoRequest
              ELSE [writes |-> << >>] @@ on_read(get_profile(param.gatts_if), param, value))

READ_EVT_inline ==
    /\ handlers = "inline"
    /\ AtRest
    /\ \E param \in { r \in Requests : ~r.need_rsp }, value \in ReadValues :
          RequestDone("READ", param, value,
              IF targets(param.gatts_if) = { } THEN NoRequest
              ELSE [writes |-> << >>] @@
                   profile_read_evt(get_profile(param.gatts_if), param, value))

WRITE_EVT ==
    /\ AtRest
    /\ \E param \in Requests, value \in ReadValues :
          RequestDone("WRITE", param, value,
              IF targets(param.gatts_if) = { } THEN NoRequest
              ELSE profile_write_evt(characteristics_from(get_profile(param.gatts_if), 1, 1),
                                     1, param, value))

\* ------------------------------------------------------- specification

Next ==
    \/ \E p \in ProfIds : register_self(p)
    \/ REG_EVT
    \/ CREATE_EVT_split
    \/ CREATE_EVT_inline
    \/ START_EVT
    \/ ADD_CHAR_EVT_split
    \/ ADD_CHAR_EVT_inline
    \/ RegisterDescriptors
    \/ ADD_CHAR_DESCR_EVT_split
    \/ ADD_CHAR_DESCR_EVT_inline
    \/ \E w \in 1..Len(workers) : WorkerIssue(w)
    \/ \E w \in 1..Len(workers) : WorkerProceed(w)

Spec == Init /\ [][Next]_vars

\* The server in service, over tree 3 and with a controller that confirms
\* every registration command with OK: once registration has drained, clients
\* connect, disconnect and write their CCCD, and value changes are confirmed.
InitIO == InitWith(3, MaxFail)

NextNotify ==
    \/ Next
    \/ CONNECT_EVT
    \/ DISCONNECT_EVT
    \/ CCCD_write
    \/ SET_ATTR_VAL_EVT_split
    \/ SET_ATTR_VAL_EVT_inline

SpecNotify == InitIO /\ [][NextNotify]_vars

\* The same server with clients that connect, disconnect, read and write.
NextRW ==
    \/ Next
    \/ CONNECT_EVT
    \/ DISCONNECT_EVT
    \/ READ_EVT_split
    \/ READ_EVT_inline
    \/ WRITE_EVT

SpecRW == InitIO /\ [][NextRW]_vars

\* The server-level events, over every tree and with failed confirmations:
\* registration, then connections, MTU changes, response acknowledgements and
\* value changes, of clients that have not written their CCCD.
NextRouter ==
    \/ Next
    \/ CONNECT_EVT
    \/ DISCONNECT_EVT
    \/ MTU_EVT
    \/ RESPONSE_EVT
    \/ SET_ATTR_VAL_EVT_split
    \/ SET_ATTR_VAL_EVT_inline

SpecRouter == Init /\ [][NextRouter]_vars

\* The CCCD closures of Descriptor::cccd, called with the address and handle
\* of the request: the addresses of three clients, of which the first two
\* differ in the last octet and the third differs from the first in bda[0]
\* and bda[1] only.
Addresses ==
    { << 16, 0, 0, 0, 0, 1 >>, << 16, 0, 0, 0, 0, 2 >>, << 32, 7, 0, 0, 0, 1 >> }

\* The attribute handles of the registered CCCD descriptors.
CccdHandles ==
    { dscHandle[d] : d \in { x \in DscIds : DscOf(x).uuid = UuidCCCD /\ dscHandle[x] # None } }

\* The write callback runs for a CCCD write of the client with address bda.
cccd_write_call ==
    /\ AtRest
    /\ \E bda \in Addresses, handle \in CccdHandles, value \in CccdValues :
          /\ nvs' = cccd_on_write(bda, handle, value)
          /\ last' = [NoEvent EXCEPT !.kind = "CCCD_ON_WRITE", !.bda = bda,
                                     !.handle = handle, !.value = value]
    /\ UNCHANGED << active_connections, panicked >>
    /\ UNCHANGED << interface, svcHandle, chrHandle, dscHandle, advertisement_configured,
                    workers, pending, ctl, hpc, cmds, cfg, handlers, requested, addCharLog >>

\* The read callback runs for a CCCD read of the client with address bda.
cccd_read_call ==
    /\ AtRest
    /\ \E bda \in Addresses, handle \in CccdHandles :
          last' = [NoEvent EXCEPT !.kind = "CCCD_ON_READ", !.bda = bda, !.handle = handle,
                                  !.value = cccd_on_read(bda, handle)]
    /\ UNCHANGED << active_connections, panicked, nvs >>
    /\ UNCHANGED << interface, svcHandle, chrHandle, dscHandle, advertisement_configured,
                    workers, pending, ctl, hpc, cmds, cfg, handlers, requested, addCharLog >>

NextCccd ==
    \/ Next
    \/ cccd_write_call
    \/ cccd_read_call

SpecCccd == InitIO /\ [][NextCccd]_vars

\* A server with two profiles (tree 1) in service: registration, then clients
\* that connect, disconnect, read and write on either profile's interface.
InitDispatch == InitWith(1, MaxFail)

SpecDispatch == InitDispatch /\ [][NextRW]_vars

\* Registration under fair scheduling: the controller goes on delivering the
\* confirmations it owes, the event-delivery context goes on running the
\* handler it is in, and the spawned threads are scheduled.
SpecLive == Spec /\ WF_vars(Next)

\* Registration with a controller that confirms every command once, with OK
\* and in issuance order, over the trees whose sibling UUIDs are distinct
\* except for one CCCD per characteristic (trees 3 and 4), under the same
\* fair scheduling.
InitComplete == \E t \in { 3, 4 } : InitWith(t, MaxFail)

SpecComplete == InitComplete /\ [][Next]_vars /\ WF_vars(Next)

\* The threads register_characteristics may have spawned, in spawning order:
\* one per service with characteristics.
WorkerIds == 1..2

\* A server with two services in one profile (tree 4) in service:
\* registration, then clients that connect, disconnect, read and write.
InitServices == InitWith(4, MaxFail)

SpecServices == InitServices /\ [][NextRW]_vars

\* Interfaces are handed out once each: an event is forwarded to one profile at most.
InterfacesDistinct ==
    \A p, q \in ProfIds : p # q /\ interface[p] # None => interface[p] # interface[q]

\* ------------------------------------------------------------------ claims

\* The handle field of a tree node: the interface of a profile, the handle of
\* a service, the attribute handle of a characteristic or of a descriptor.
HandleOf(n) ==
    CASE Len(n) = 1 -> interface[n[1]]
      [] Len(n) = 2 -> svcHandle[n]
      [] Len(n) = 3 -> chrHandle[n]
      [] OTHER      -> dscHandle[n]

\* The descriptors that share their UUID with another descriptor of the same
\* characteristic.
SharedUuidDescriptors ==
    { d \in DscIds : \E e \in DscIdsOf(<< d[1], d[2], d[3] >>) :
                        e # d /\ DscOf(e).uuid = DscOf(d).uuid }

\* C1: FIFO matching law. While every confirmation so far was OK (and they
\* come in issuance order), the add-descriptor confirmation of a descriptor
\* that shares its UUID with a sibling is recorded on the descriptor the
\* request was issued for, and once registration has drained every such
\* descriptor has a handle.
C1_FifoMatching ==
    ctl.fails = 0 =>
        /\ (/\ last.kind = "ADD_CHAR_DESCR"
            /\ last.status = ESP_GATT_OK
            /\ last.profiles # { }
            /\ last.node \in SharedUuidDescriptors)
           => dscHandle[last.node] = last.handle
        /\ AtRest => \A d \in SharedUuidDescriptors : dscHandle[d] # None

C3_HandleWrittenOnce ==
    [][/\ \A p \in ProfIds : interface[p] # None => interface'[p] = interface[p]
       /\ \A n \in SvcIds : svcHandle[n] # None => svcHandle'[n] = svcHandle[n]
       /\ \A n \in ChrIds : chrHandle[n] # None => chrHandle'[n] = chrHandle[n]
       /\ \A n \in DscIds : dscHandle[n] # None => dscHandle'[n] = dscHandle[n]]_vars

\* C4: a failed confirmation leaves the handle empty. After a confirmation
\* with a non-OK status was handled, the node the command was issued for has
\* no handle.
C4_FailureLeavesHandleEmpty ==
    (/\ last.kind \in { "REG", "CREATE", "ADD_CHAR", "ADD_CHAR_DESCR" }
     /\ last.status # ESP_GATT_OK)
    => HandleOf(last.node) = None

\* C5: a failed characteristic does not abort its siblings. When the
\* confirmation of characteristic i < K reported a failure and registration has
\* come to a stop (the controller has confirmed every command and no thread can
\* take a step), the commands of all K characteristics of the service have
\* been issued.
C5_SiblingsStillRegistered ==
    (/\ last.kind = "ADD_CHAR"
     /\ last.status # ESP_GATT_OK
     /\ AtRest)
    => Len(addCharLog[SubSeq(last.node, 1, 2)])
          = Len(SvcOf(SubSeq(last.node, 1, 2)).characteristics)

\* C8: the one-time device setup. Each of the three setup commands has been
\* issued once if some profile registration was confirmed with OK, and not at
\* all otherwise: the first successful confirmation issues them, later ones
\* do not.
C8_DeviceSetupOnce ==
    LET n == IF \E p \in ProfIds : interface[p] # None THEN 1 ELSE 0
    IN  /\ cmds.set_device_name = n
        /\ cmds.config_adv_data = n
        /\ cmds.config_scan_rsp = n

\* C8, witness: two profiles were registered successfully and the setup
\* commands were issued once.
C8_TwoRegistered ==
    /\ Cardinality({ p \in ProfIds : interface[p] # None }) >= 2
    /\ cmds = [set_device_name |-> 1, config_adv_data |-> 1, config_scan_rsp |-> 1]

\* C6: pushes go to subscribers only. After an attribute-value-set
\* confirmation that resolved to a characteristic: every push went to an active
\* connection whose persisted CCCD state enables a kind the characteristic
\* supports, no connection was sent two pushes, and for a characteristic with
\* notify and without indicate and two active connections of which exactly one
\* has notifications enabled, the pushes are one unacknowledged notify to
\* that connection.
C6_PushOnlyToSubscribers ==
    (last.kind = "SET_ATTR_VAL" /\ last.char # << >>) =>
        LET c == last.char
            sends == last.sends
            enabled(x) ==
                LET st == persisted_cccd(c, x)
                IN  st # << >> /\ ((ChrOf(c).notify /\ st[1]) \/ (ChrOf(c).indicate /\ st[2]))
            notified(x) ==
                LET st == persisted_cccd(c, x)
                IN  st # << >> /\ st[1]
        IN  /\ \A i \in 1..Len(sends) :
                  \E x \in last.was : x.id = sends[i].conn_id /\ enabled(x)
            /\ \A i, j \in 1..Len(sends) : i # j => sends[i].conn_id # sends[j].conn_id
            /\ \A a \in last.was :
                  (/\ ChrOf(c).notify
                   /\ ~ChrOf(c).indicate
                   /\ Cardinality(last.was) = 2
                   /\ notified(a)
                   /\ \A b \in last.was \ { a } : ~notified(b))
                  => /\ Len(sends) = 1
                     /\ sends[1].conn_id = a.id
                     /\ ~sends[1].need_confirm

\* C7: priority rule. After an attribute-value-set confirmation that resolved
\* to a characteristic, for every active connection: if the characteristic
\* supports notify and indicate and the connection's CCCD state enables both,
\* the connection was sent exactly one push, an acknowledged indicate; and a
\* notify was sent to the connection only with the indicate branch not
\* applying and notify supported and enabled.
C7_PriorityRule ==
    (last.kind = "SET_ATTR_VAL" /\ last.char # << >>) =>
        \A x \in last.was :
            LET c == last.char
                st == persisted_cccd(c, x)
                mine == { i \in 1..Len(last.sends) : last.sends[i].conn_id = x.id }
            IN  /\ (/\ ChrOf(c).notify /\ ChrOf(c).indicate
                    /\ st # << >> /\ st[1] /\ st[2])
                   => /\ Cardinality(mine) = 1
                      /\ \A i \in mine : last.sends[i].need_confirm
                /\ \A i \in mine :
                      ~last.sends[i].need_confirm
                      => /\ st # << >>
                         /\ ~(ChrOf(c).indicate /\ st[2])
                         /\ ChrOf(c).notify /\ st[1]

\* C9: idempotent removal. After a disconnect event the connection is not in
\* the active set, the other connections are those that were there before, and
\* a disconnect of a connection that was not recorded leaves the set as it was.
C9_DisconnectRemoves ==
    last.kind = "DISCONNECT" =>
        /\ \A e \in active_connections : e.id # last.conn
        /\ active_connections = { e \in last.was : e.id # last.conn }
        /\ (\A e \in last.was : e.id # last.conn) => active_connections = last.was

\* C9, witness: a disconnect event for a connection that was not recorded,
\* with another connection active.
C9_UnrecordedDisconnect ==
    /\ last.kind = "DISCONNECT"
    /\ last.was # { }
    /\ \A e \in last.was : e.id # last.conn

\* C10: a read of an application-handled characteristic. After a read request
\* whose handle is the attribute handle of a characteristic with ResponseByApp
\* control and whose callback returned bytes that fit the response buffer: the
\* callback of that characteristic was invoked once, and one response was
\* sent, to the requesting connection and handle, with the length of the
\* returned bytes and a buffer holding these bytes followed by zeros.
C10_ReadAnswered ==
    \A c \in ChrIds :
        (/\ last.kind = "READ"
         /\ chrHandle[c] = last.handle
         /\ ChrOf(c).control = "ResponseByApp"
         /\ ByteLen(last.value) <= RspBufLen)
        => /\ last.reads = << c >>
           /\ Len(last.rsps) = 1
           /\ last.rsps[1].conn_id = last.conn
           /\ last.rsps[1].handle = last.handle
           /\ last.rsps[1].len = ByteLen(last.value)
           /\ ByteLen(last.rsps[1].value) = RspBufLen
           /\ \E k \in 0..1 :
                 /\ SubSeq(last.rsps[1].value, 1, Len(last.rsps[1].value) - k) = last.value
                 /\ k = 1 => last.rsps[1].value[Len(last.rsps[1].value)][2] = 0

\* C10, witness: a read of an application-handled characteristic whose
\* callback returned two bytes was answered.
C10_ShortValueRead ==
    /\ last.kind = "READ"
    /\ \E c \in ChrIds : chrHandle[c] = last.handle /\ ChrOf(c).control = "ResponseByApp"
    /\ last.value = << << 2, 7 >> >>
    /\ Len(last.rsps) = 1

\* C11: an over-long value is truncated. After a read request for the
\* attribute handle of a ResponseByApp characteristic whose callback returned
\* more bytes than the response buffer holds, the handler has not failed and
\* one response was sent whose buffer holds the first RspBufLen returned bytes.
C11_LongValueTruncated ==
    \A c \in ChrIds :
        (/\ last.kind = "READ"
         /\ chrHandle[c] = last.handle
         /\ ChrOf(c).control = "ResponseByApp"
         /\ ByteLen(last.value) > RspBufLen)
        => /\ ~panicked
           /\ Len(last.rsps) = 1
           /\ ByteLen(last.rsps[1].value) = RspBufLen
           /\ FirstByte(last.rsps[1].value) = FirstByte(last.value)

\* C12: the order of a write that needs a response. After a write request
\* with need_rsp for the attribute handle of a ResponseByApp characteristic
\* that carries a write callback, the read callback returning bytes that fit
\* the response buffer: the handler invoked the write callback once, then the
\* read callback once, then sent one response, and did nothing else.
C12_WriteThenReadThenRespond ==
    \A c \in ChrIds :
        (/\ last.kind = "WRITE"
         /\ last.need_rsp
         /\ chrHandle[c] = last.handle
         /\ ChrOf(c).control = "ResponseByApp"
         /\ ChrOf(c).write_callback
         /\ ByteLen(last.value) <= RspBufLen)
        => last.calls = << << "write", c >>, << "read", c >>, << "rsp", c >> >>

\* C12, witness: such a write request was handled and answered.
C12_WriteAnswered ==
    /\ last.kind = "WRITE"
    /\ last.need_rsp
    /\ \E c \in ChrIds : /\ chrHandle[c] = last.handle
                         /\ ChrOf(c).control = "ResponseByApp"
                         /\ ChrOf(c).write_callback
    /\ Len(last.rsps) = 1

\* C13: a write that demands a response is answered. After a write request
\* with need_rsp for the attribute handle of a ResponseByApp characteristic,
\* the read callback returning bytes that fit the response buffer, one
\* response was sent and it carries the bytes the read callback returned.
C13_WriteResponseCarriesReadValue ==
    \A c \in ChrIds :
        (/\ last.kind = "WRITE"
         /\ last.need_rsp
         /\ chrHandle[c] = last.handle
         /\ ChrOf(c).control = "ResponseByApp"
         /\ ByteLen(last.value) <= RspBufLen)
        => /\ Len(last.rsps) = 1
           /\ last.rsps[1].len = ByteLen(last.value)
           /\ last.rsps[1].value = response_buffer(last.value)

\* C14: server-level events are consumed. After a connect, disconnect, MTU
\* change, profile-registration confirmation, response acknowledgement or
\* attribute-value-set confirmation, the event was handed to no profile's
\* event handler.
C14_ServerEventsConsumed ==
    last.kind \in { "CONNECT", "DISCONNECT", "MTU", "REG", "RESPONSE", "SET_ATTR_VAL" }
    => last.profiles = { }

\* C14 as the code has it: connect, disconnect, MTU change, response
\* acknowledgement and attribute-value-set confirmation are handed to no
\* profile; a successful profile-registration confirmation is handed to the
\* profile it registered, and to that profile only.
C14_ServerEventsConsumedButReg ==
    /\ last.kind \in { "CONNECT", "DISCONNECT", "MTU", "RESPONSE", "SET_ATTR_VAL" }
       => last.profiles = { }
    /\ (last.kind = "REG" /\ last.status = ESP_GATT_OK)
       => /\ last.profiles # { }
          /\ \A p \in last.profiles : profiles[p].identifier = profiles[last.node[1]].identifier

\* C14, witness: with a profile registered, a connect event has been handled.
C14_ConnectWithProfile ==
    /\ last.kind = "CONNECT"
    /\ \E p \in ProfIds : interface[p] = last.gatts_if

\* C15: a lookup failure is never fatal. An attribute-value-set confirmation
\* for a characteristic in which the search for a CCCD descriptor finds
\* nothing, and one whose interface, service handle or attribute handle
\* matches no node, leave the server running.
C15_LookupFailureNotFatal ==
    (/\ last.kind = "SET_ATTR_VAL"
     /\ \/ last.char = << >>
        \/ find_cccd(last.char) = 0)
    => ~panicked

\* C16: in the value-change fan-out a connection whose CCCD descriptor has no
\* attribute handle yet, or whose CCCD read yields no status, is skipped and
\* the fan-out goes on: the handler completes, and every connection whose
\* persisted CCCD state subscribes it is sent to.
C16_UnreadableCccdSkipped ==
    (/\ last.kind = "SET_ATTR_VAL"
     /\ handlers = "split"
     /\ last.char # << >>
     /\ find_cccd(last.char) # 0)
    => /\ ~panicked
       /\ \A c \in last.was :
             LET status == persisted_cccd(last.char, c)
             IN  (/\ status # << >>
                  /\ \/ ChrOf(last.char).indicate /\ status[2]
                     \/ ChrOf(last.char).notify /\ status[1])
                 => \E i \in 1..Len(last.sends) : last.sends[i].conn_id = c.id

\* C17: a rejected indicate/notify send for one connection does not affect
\* the others. When the controller rejects a send of a fan-out, the handler
\* completes and every active connection whose persisted CCCD state
\* subscribes it is sent to in that fan-out.
C17_RejectedSendIsolated ==
    (/\ last.kind = "SET_ATTR_VAL"
     /\ \E i \in 1..Len(last.sends) : ~last.sends[i].accepted)
    => /\ ~panicked
       /\ \A c \in last.was :
             LET status == persisted_cccd(last.char, c)
             IN  (/\ status # << >>
                  /\ \/ ChrOf(last.char).indicate /\ status[2]
                     \/ ChrOf(last.char).notify /\ status[1])
                 => \E i \in 1..Len(last.sends) : last.sends[i].conn_id = c.id

\* The characteristics that share their UUID with another characteristic of
\* the same service.
SharedUuidCharacteristics ==
    { c \in ChrIds : \E e \in ChrIdsOf(<< c[1], c[2] >>) :
                        e # c /\ ChrOf(e).uuid = ChrOf(c).uuid }

\* C18: duplicate UUIDs among siblings are disambiguated by registration
\* order. While every confirmation so far was OK, the add-characteristic
\* confirmation of a characteristic that shares its UUID with a sibling is
\* recorded on the characteristic the command was issued for, and once
\* registration has drained every such characteristic has a handle.
C18_DuplicateSiblingsByOrder ==
    ctl.fails = 0
    => /\ (/\ last.kind = "ADD_CHAR"
           /\ last.node \in SharedUuidCharacteristics)
          => chrHandle[last.node] = last.handle
       /\ AtRest => \A c \in SharedUuidCharacteristics : chrHandle[c] # None

\* C19: CCCD state is keyed per connection. A CCCD value written by the
\* client with address X for handle h is what a read for (X, h) returns
\* afterwards, and the write leaves what a read for (Y, h) returns unchanged
\* for every address Y # X: such a read returns Y's own stored value, or
\* [0, 0] when Y has none, never the value X wrote.
C19_CccdKeyedPerConnection ==
    [][\A X \in Addresses, h \in CccdHandles, v \in CccdValues :
          (/\ last' = [NoEvent EXCEPT !.kind = "CCCD_ON_WRITE", !.bda = X,
                                      !.handle = h, !.value = v]
           /\ last' # last)
          => /\ cccd_on_read(X, h)' = v
             /\ \A Y \in Addresses \ { X } : cccd_on_read(Y, h)' = cccd_on_read(Y, h)]_vars

\* The positions of the queued commands that were issued for a node of profile p.
CommandsFor(queue, p) == { i \in 1..Len(queue) : queue[i].node[1] = p }

\* C20: a non-server-level event reported on interface I is dispatched to
\* exactly the profiles whose recorded interface equals I. In a profile whose
\* interface is unset or differs from I the step changes no handle, invokes
\* no callback, issues no command and starts no registration work.
C20_DispatchedByInterface ==
    [][(/\ last' # last
        /\ last'.kind \in { "CREATE", "START", "ADD_CHAR", "ADD_CHAR_DESCR", "READ", "WRITE" })
       => /\ last'.profiles = { p \in ProfIds : interface[p] = last'.gatts_if }
          /\ \A p \in ProfIds :
                interface[p] # last'.gatts_if
                => /\ interface'[p] = interface[p]
                   /\ \A n \in SvcIds : n[1] = p => svcHandle'[n] = svcHandle[n]
                   /\ \A n \in ChrIds : n[1] = p => chrHandle'[n] = chrHandle[n]
                   /\ \A n \in DscIds : n[1] = p => dscHandle'[n] = dscHandle[n]
                   /\ \A i \in 1..Len(last'.calls) : last'.calls[i][2][1] # p
                   /\ Cardinality(CommandsFor(pending', p)) <= Cardinality(CommandsFor(pending, p))
                   /\ hpc' # << >> => hpc'[1][1] # p
                   /\ \A w \in 1..Len(workers') :
                         workers'[w].svc[1] = p
                         => w <= Len(workers) /\ workers'[w] = workers[w]]_vars

\* C20 witness: a read or write request on the interface of one profile has
\* invoked a callback there while another profile is registered on a
\* different interface.
C20_CallbackInOneOfTwoProfiles ==
    /\ last.kind \in { "READ", "WRITE" }
    /\ last.calls # << >>
    /\ \E p \in ProfIds : interface[p] \notin { None, last.gatts_if }

\* C21: a successful profile-registration confirmation that echoes the
\* application identifier X records the reported interface on the profile
\* whose identifier is X, and leaves the interface of every other profile as
\* it was.
C21_InterfaceOnEchoedProfile ==
    [][(/\ last' # last
        /\ last'.kind = "REG"
        /\ last'.status = ESP_GATT_OK)
       => \A p \in ProfIds :
             IF profiles[p].identifier = Head(pending).app_id
             THEN interface'[p] = last'.gatts_if
             ELSE interface'[p] = interface[p]]_vars

\* C21 witness: the registration of the second profile was confirmed while the
\* first profile already had its interface.
C21_SecondProfileRegistered ==
    /\ last.kind = "REG"
    /\ last.status = ESP_GATT_OK
    /\ \E p, q \in ProfIds :
          /\ p # q
          /\ interface[p] = last.gatts_if
          /\ interface[q] \notin { None, last.gatts_if }

\* The positions of the queued commands of that kind issued for node n.
CommandsOf(queue, kind, n) ==
    { i \in 1..Len(queue) : queue[i].kind = kind /\ queue[i].node = n }

\* C22: service creation follows profile registration. A step issues a
\* create-service command for a service only when it handles the successful
\* registration confirmation of the service's profile, whose interface is
\* then recorded and carried by the command; and such a step issues exactly
\* one create-service command for each service of the profile, in declared
\* order.
C22_CreateFollowsRegistration ==
    [][/\ \A n \in SvcIds :
             Cardinality(CommandsOf(pending', "CREATE", n))
                > Cardinality(CommandsOf(pending, "CREATE", n))
             => /\ last' # last
                /\ last'.kind = "REG"
                /\ last'.status = ESP_GATT_OK
                /\ interface'[n[1]] # None
                /\ interface'[n[1]] = last'.gatts_if
       /\ (/\ last' # last
           /\ last'.kind = "REG"
           /\ last'.status = ESP_GATT_OK)
          => \E p \in ProfIds :
                /\ profiles[p].identifier = Head(pending).app_id
                /\ Len(pending') = Len(pending) - 1 + Len(profiles[p].services)
                /\ \A s \in 1..Len(profiles[p].services) :
                      LET cmd == pending'[Len(pending) - 1 + s]
                      IN  /\ cmd.kind = "CREATE"
                          /\ cmd.node = << p, s >>
                          /\ cmd.uuid = profiles[p].services[s].uuid
                          /\ cmd.gatts_if = interface'[p]]_vars

\* C22 witness: the registration of a profile with two services was confirmed
\* and both create-service commands are queued.
C22_TwoServicesRequested ==
    /\ last.kind = "REG"
    /\ last.status = ESP_GATT_OK
    /\ Len(profiles[last.node[1]].services) = 2
    /\ CommandsOf(pending, "CREATE", << last.node[1], 1 >>) # { }
    /\ CommandsOf(pending, "CREATE", << last.node[1], 2 >>) # { }

\* The positions of the queued add-characteristic commands of service n.
AddCharsOf(queue, n) ==
    { i \in 1..Len(queue) : /\ queue[i].kind = "ADD_CHAR"
                            /\ SubSeq(queue[i].node, 1, 2) = n }

\* C23: start follows creation and precedes the characteristics. The step
\* that handles a successful service-created confirmation records the reported
\* handle and issues exactly one start-service command for it, and no other
\* step issues one; the thread that registers the service's characteristics
\* is started by that same step, after the start command; an
\* add-characteristic command is issued only by such a thread, for a service
\* that has a handle, and carries that handle.
C23_StartBeforeCharacteristics ==
    [][\A n \in SvcIds :
          LET created == /\ last' # last
                         /\ last'.kind = "CREATE"
                         /\ last'.status = ESP_GATT_OK
                         /\ last'.node = n
              started == Cardinality(CommandsOf(pending', "START", n))
                            - Cardinality(CommandsOf(pending, "START", n))
              spawned == { w \in 1..Len(workers') : w > Len(workers) /\ workers'[w].svc = n }
              added   == { i \in AddCharsOf(pending', n) : i > Len(pending) }
          IN  /\ created => /\ svcHandle'[n] = last'.handle
                            /\ started = 1
                            /\ pending'[Len(pending')].kind = "START"
                            /\ pending'[Len(pending')].service_handle = last'.handle
                            /\ added = { }
              /\ ~created => started <= 0
              /\ spawned # { } => created
              /\ added # { } => /\ svcHandle[n] # None
                                /\ \E w \in 1..Len(workers) : workers[w].svc = n
                                /\ \A i \in added : pending'[i].service_handle = svcHandle[n]]_vars

\* C23 witness: the start-service command of a service is still queued and
\* the first add-characteristic command of that service is queued behind it.
C23_AddCharQueuedBehindStart ==
    \E n \in SvcIds :
        \E i \in CommandsOf(pending, "START", n), j \in AddCharsOf(pending, n) : i < j

C25_WorkerWaitEnds ==
    \A w \in WorkerIds :
        (w <= Len(workers) /\ workers[w].waiting)
            ~> (w <= Len(workers) /\ ~workers[w].waiting)

\* C26: the active-connection set holds the connections with a connect event
\* and no later disconnect event. A connect event leaves exactly one entry
\* for its connection and the other entries as they were, a disconnect event
\* removes the entry of its connection and nothing else, and no other step
\* changes the set.
C26_ActiveSetFollowsEvents ==
    [][LET handled == last' # last
       IN  /\ (handled /\ last'.kind = "CONNECT")
              => /\ Cardinality({ e \in active_connections' : e.id = last'.conn }) = 1
                 /\ { e \in active_connections' : e.id # last'.conn }
                       = { e \in active_connections : e.id # last'.conn }
           /\ (handled /\ last'.kind = "DISCONNECT")
              => active_connections' = { e \in active_connections : e.id # last'.conn }
           /\ ~(handled /\ last'.kind \in { "CONNECT", "DISCONNECT" })
              => active_connections' = active_connections]_vars

\* C26 witness: a connect event for a connection that was already active,
\* with the other connection active too.
C26_RepeatedConnect ==
    /\ last.kind = "CONNECT"
    /\ \E e \in last.was : e.id = last.conn
    /\ Cardinality(active_connections) = 2

\* C27: every disconnect event issues exactly one advertising-start command,
\* whether or not the connection was recorded and whether or not other
\* connections stay active.
C27_DisconnectRestartsAdvertising ==
    last.kind = "DISCONNECT" => last.adv = 1

\* C27 witness: a disconnect of a recorded connection that leaves another
\* connection active.
C27_DisconnectLeavesOthers ==
    /\ last.kind = "DISCONNECT"
    /\ \E e \in last.was : e.id = last.conn
    /\ active_connections # { }

C29_DescriptorReadAnswered ==
    \A d \in DscIds :
        (/\ last.kind = "READ"
         /\ d[1] \in last.profiles
         /\ dscHandle[d] = last.handle
         /\ DscOf(d).control = "ResponseByApp"
         /\ \A c \in ChrIds : chrHandle[c] # last.handle)
        => /\ last.reads = << d >>
           /\ last.calls = << << "read", d >>, << "rsp", d >> >>
           /\ Len(last.rsps) = 1
           /\ last.rsps[1].conn_id = last.conn
           /\ last.rsps[1].handle = last.handle
           /\ \E e \in Connections :
                 /\ e.id = last.conn
                 /\ LET returned == read_callback(d, [bda |-> e.remote_bda,
                                                      handle |-> last.handle], last.value)
                    IN  /\ last.rsps[1].len = ByteLen(returned)
                        /\ SubSeq(last.rsps[1].value, 1, Len(returned)) = returned

\* The characteristics and descriptors of the profiles in `ps` whose
\* attribute handle is `handle`.
NodesWithHandle(ps, handle) ==
    { n \in ChrIds \cup DscIds : n[1] \in ps /\ HandleOf(n) = handle }

\* The control policy of a characteristic or descriptor.
ControlOf(n) == IF Len(n) = 3 THEN ChrOf(n).control ELSE DscOf(n).control

\* C30: a read request that resolves to a characteristic or descriptor whose
\* control policy is not application-handled invokes no callback and sends
\* no response.
C30_AutomaticReadUnanswered ==
    (/\ last.kind = "READ"
     /\ NodesWithHandle(last.profiles, last.handle) # { }
     /\ \A n \in NodesWithHandle(last.profiles, last.handle) : ControlOf(n) # "ResponseByApp")
    => /\ last.reads = << >>
       /\ last.calls = << >>
       /\ last.rsps = << >>
       /\ ~panicked

\* C30 witness: a read request for the handle of a descriptor that the
\* controller answers was handled.
C30_ReadOfStaticDescriptor ==
    /\ last.kind = "READ"
    /\ \E d \in DscIds : /\ d \in NodesWithHandle(last.profiles, last.handle)
                         /\ DscOf(d).control = "AutomaticResponse"

\* C31: fan-out only for confirmed changes. After an attribute-value-set
\* confirmation with a non-OK status no indicate and no notify was sent to
\* any connection.
C31_FailedChangeNotPushed ==
    (last.kind = "SET_ATTR_VAL" /\ last.status # ESP_GATT_OK) => last.sends = << >>

\* C32: a descriptor-add confirmation is recorded on the characteristic it
\* was requested for. Every step that writes the attribute handle of a
\* descriptor handles a descriptor-add confirmation, and the descriptor
\* written belongs to the characteristic the confirmed add-descriptor command
\* was issued for.
C32_RecordedOnRequestedCharacteristic ==
    [][\A d \in DscIds :
          dscHandle'[d] # dscHandle[d]
          => /\ last'.kind = "ADD_CHAR_DESCR"
             /\ SubSeq(d, 1, 3) = SubSeq(last'.node, 1, 3)]_vars

\* Every profile, service, characteristic and descriptor of the tree has a
\* non-empty handle.
AllRegistered ==
    /\ \A p \in ProfIds : interface[p] # None
    /\ \A n \in SvcIds : svcHandle[n] # None
    /\ \A n \in ChrIds : chrHandle[n] # None
    /\ \A n \in DscIds : dscHandle[n] # None

\* Every service with characteristics has had its thread spawned, and every
\* thread has left its loop over the characteristics.
WorkersTerminated ==
    /\ \A n \in SvcIds :
          Len(SvcOf(n).characteristics) > 0
          => \E w \in 1..Len(workers) : workers[w].svc = n
    /\ \A w \in 1..Len(workers) :
          /\ ~workers[w].waiting
          /\ workers[w].idx > Len(SvcOf(workers[w].svc).characteristics)

\* C33: registration completes. With sibling UUIDs distinct except for one
\* CCCD per characteristic, every command confirmed once with OK in issuance
\* order and fair scheduling, eventually every profile, service,
\* characteristic and descriptor has a non-empty handle and every
\* registration thread has terminated.
C33_RegistrationCompletes == <>(AllRegistered /\ WorkersTerminated)

\* C33, witness: registration has completed over the tree with a CCCD on each
\* of two characteristics of one service, the handles of the two CCCDs distinct.
C33_TwoCccdsRegistered ==
    /\ cfg = 3
    /\ AllRegistered
    /\ WorkersTerminated
    /\ pending = << >>
    /\ dscHandle[<< 1, 1, 1, 1 >>] # dscHandle[<< 1, 1, 2, 1 >>]

=============================================================================
